---- MODULE Spec2Model ----
(***************************************************************************)
(* A model of copulae.copula.base.BaseCopula: the fit orchestration, the   *)
(* fit-state guard of random, and the derived operations (log_lik, the     *)
(* concentration functions, pobs, lambda_).                                *)
(*                                                                         *)
(* Real numbers are exact rationals <<num, den>> in lowest terms with      *)
(* den > 0; the results of a numpy division by zero are <<0, 0>> (nan) and *)
(* <<1, 0>>, <<-1, 0>> (inf, -inf).  Optional values are None == <<>> or   *)
(* Some(v) == <<v>>.                                                       *)
(***************************************************************************)
EXTENDS Integers, Sequences, FiniteSets

VARIABLES params, fit_stats, op, args, result, calls

vars == <<params, fit_stats, op, args, result, calls>>

(* ------------------------------ bounds -------------------------------- *)

\* rows of the data matrices the lifecycle operations are called with
MaxFitRows == 2
\* rows of the data matrices pobs is checked on exhaustively
MaxRows == 3
\* the concentration arguments are the multiples of 1/(2*HalfSteps)
HalfSteps == 5
\* how many grid steps the concentration arguments leave [0, 1] on each side
Outside == 2
\* the largest number of observations asked of random
MaxDraw == 2
\* how many options of fit a caller sets to something else than the default
MaxOverrides == 1

(* ----------------------------- rationals ------------------------------ *)

None == <<>>

Some(v) == <<v>>

Abs(i) == IF i < 0 THEN -i ELSE i

RECURSIVE GCD(_, _)
GCD(a, b) == IF b = 0 THEN a ELSE GCD(b, a % b)

Rat(n, d) ==
    LET s == IF d < 0 THEN -1 ELSE 1
        g == GCD(Abs(n), Abs(d))
    IN  <<(s * n) \div g, (s * d) \div g>>

Zero == <<0, 1>>

Half == <<1, 2>>

One == <<1, 1>>

NaN == <<0, 0>>

IsFinite(q) == q[2] # 0

Lt(a, b) == a[1] * b[2] < b[1] * a[2]

Gt(a, b) == Lt(b, a)

Add(a, b) == Rat(a[1] * b[2] + b[1] * a[2], a[2] * b[2])

Sub(a, b) == Rat(a[1] * b[2] - b[1] * a[2], a[2] * b[2])

Mul(a, b) == Rat(a[1] * b[1], a[2] * b[2])

Min2(a, b) == IF Lt(b, a) THEN b ELSE a

Pow2(k) == 2 ^ k

RECURSIVE SumSeq(_)
SumSeq(s) == IF s = <<>> THEN 0 ELSE Head(s) + SumSeq(Tail(s))

(* The outcome of an operation: what it returns or raises, and the calls  *)
(* it made to the family's primitives and to its collaborators, in order. *)
Return(v, cs) == [kind |-> "return", val |-> v, calls |-> cs]

Raise(exc, msg, cs) == [kind |-> exc, val |-> msg, calls |-> cs]

(* a / b as Python evaluates it.  numpy = TRUE: a is a numpy value, a zero *)
(* divisor gives nan or +-inf (with a RuntimeWarning); numpy = FALSE: a is *)
(* a Python float and a zero divisor raises ZeroDivisionError.             *)
TrueDiv(a, b, numpy, cs) ==
    IF b[1] # 0 THEN Return(Rat(a[1] * b[2], a[2] * b[1]), cs)
    ELSE IF numpy
         THEN Return(<<IF a[1] > 0 THEN 1 ELSE IF a[1] < 0 THEN -1 ELSE 0, 0>>, cs)
         ELSE Raise("ZeroDivisionError", "float division by zero", cs)

(* ------------------- the family's primitives -------------------------- *)
(* BaseCopula leaves cdf, pdf, params, __lambda__ and __random__ to the   *)
(* concrete family.  The family used here is bivariate with one parameter *)
(* theta in {0, 1}: the mixture with weight w = theta/2 of the comonotone *)
(* copula min(u, v) and the independence copula u*v.                      *)

Dim == 2

ParamSupport == {<<0>>, <<1>>}

Weight(p) == Rat(p[1], 2)

InitialStats == None

\* AbstractCopula.__init__(dim, name): no fit has been made
AbstractCopula_init(p) == [params |-> p, fit_stats |-> InitialStats]

\* C(u, v) = (1 - w) u v + w min(u, v); with theta = 0, C(x, x) = x*x
cdf(self, x) ==
    LET w == Weight(self.params)
    IN  Add(Mul(Sub(One, w), Mul(x[1], x[2])), Mul(w, Min2(x[1], x[2])))

\* 0, 1 or 2 as q is below, at or above one half
Side(q) == IF Lt(q, Half) THEN 0 ELSE IF Gt(q, Half) THEN 2 ELSE 1

\* the log density of one observation: an integer that grows with theta
LogDensity(self, row) == self.params[1] * SumSeq([j \in 1..Len(row) |-> Side(row[j])])

\* pdf(x, log): one value per observation; the density is 2 ^ (log density)
pdf(self, x, log) ==
    [i \in 1..Len(x) |->
        IF log THEN Rat(LogDensity(self, x[i]), 1)
        ELSE Rat(Pow2(LogDensity(self, x[i])), 1)]

\* (lower, upper) tail dependence: both equal the weight of min(u, v)
__lambda__(self) == <<<<Weight(self.params)>>, <<Weight(self.params)>>>>

\* n observations of dimension Dim inside (0, 1); draw is the generator's state
__random__(self, n, seed, draw) ==
    [i \in 1..n |-> [j \in 1..Dim |-> Rat(i + draw, n + 2)]]

\* a seeded generator is reproducible, an unseeded one is not
Draws(seed) == IF seed = None THEN {0, 1} ELSE {seed[1] % 2}

\* the params setter of the family: validates, then stores
SetParamsOf(self, p) ==
    IF p \in ParamSupport
    THEN [self |-> [self EXCEPT !.params = p], out |-> Return(None, <<>>)]
    ELSE [self |-> self, out |-> Raise("ValidationError", "params outside the support", <<>>)]

(* ------------------- pseudo-observations ------------------------------ *)

Ties == {"average", "min", "max", "dense", "ordinal"}

Column(data, j) == [i \in 1..Len(data) |-> data[i][j]]

\* twice the rank of col[i] in col (twice, so that an average rank is an integer)
Rank2(col, i, ties) ==
    LET n    == Len(col)
        less == Cardinality({k \in 1..n : Lt(col[k], col[i])})
        eq   == Cardinality({k \in 1..n : col[k] = col[i]})
    IN  CASE ties = "average" -> 2 * less + eq + 1
          [] ties = "min"     -> 2 * (less + 1)
          [] ties = "max"     -> 2 * (less + eq)
          [] ties = "dense"   -> 2 * (Cardinality({col[k] : k \in {m \in 1..n : Lt(col[m], col[i])}}) + 1)
          [] ties = "ordinal" -> 2 * (less + Cardinality({k \in 1..i : col[k] = col[i]}))

\* copulae.math_tools.misc.pseudo_obs: each column's ranks divided by n + 1
pseudo_obs(data, ties) ==
    [i \in 1..Len(data) |->
        [j \in 1..Len(data[i]) |-> Rat(Rank2(Column(data, j), i, ties), 2 * (Len(data) + 1))]]

\* a pobs that hands the data back as it came
pobs_raw(data, ties) == data

\* BaseCopula.pobs: pseudo_obs(data, ties)
pobs(data, ties) == pseudo_obs(data, ties)

(* ------------------- the estimator ------------------------------------ *)

Call(fn, a, ret) == [fn |-> fn, args |-> a, ret |-> ret]

\* what the optimizer may come back with: no convergence, or an optimum
OptimResults ==
    {[success |-> FALSE, x |-> None]} \cup {[success |-> TRUE, x |-> p] : p \in ParamSupport}

SumRat(xs) == Rat(SumSeq([i \in 1..Len(xs) |-> xs[i][1]]), 1)

\* copulae.estimators.CopulaEstimator(copula, data, x0, method, est_var,
\* verbose, optim_options): on convergence sets copula.params and
\* copula.fit_stats, otherwise raises and leaves the copula as it was
CopulaEstimator(copula, data, x0, method, est_var, verbose, optim_options, res) ==
    IF res.success
    THEN LET fitted == [copula EXCEPT !.params = res.x]
             stats  == [params  |-> res.x,
                        log_lik |-> SumRat(pdf(fitted, data, TRUE)),
                        se      |-> IF est_var THEN Some(One) ELSE None]
         IN  [self |-> [fitted EXCEPT !.fit_stats = Some(stats)], kind |-> "return", val |-> None]
    ELSE [self |-> copula, kind |-> "EstimationError", val |-> "optimizer did not converge"]

(* ------------------- BaseCopula --------------------------------------- *)

\* a fit that hands the raw data to the estimator
fit_raw(self, data, x0, method, est_var, verbose, optim_options, res) ==
    LET e == CopulaEstimator(self, data, x0, method, est_var, verbose, optim_options, res)
    IN  [self |-> e.self,
         out  |-> [kind |-> e.kind, val |-> e.val,
                   calls |-> <<Call("CopulaEstimator",
                                    <<"self", data, x0, method, est_var, verbose, optim_options>>,
                                    None)>>]]

\* a fit that starts from the initial guess: it stores x0 before estimating
fit_presets(self, data, x0, method, est_var, verbose, optim_options, res) ==
    LET d == pobs(data, "average")
        s == IF x0 = None THEN self ELSE [self EXCEPT !.params = x0[1]]
        e == CopulaEstimator(s, d, x0, method, est_var, verbose, optim_options, res)
    IN  [self |-> e.self,
         out  |-> [kind |-> e.kind, val |-> e.val,
                   calls |-> <<Call("CopulaEstimator",
                                    <<"self", d, x0, method, est_var, verbose, optim_options>>,
                                    None)>>]]

\* a fit that discards the previous fit before estimating
fit_resets(self, data, x0, method, est_var, verbose, optim_options, res) ==
    LET d == pobs(data, "average")
        s == [self EXCEPT !.fit_stats = None]
        e == CopulaEstimator(s, d, x0, method, est_var, verbose, optim_options, res)
    IN  [self |-> e.self,
         out  |-> [kind |-> e.kind, val |-> e.val,
                   calls |-> <<Call("CopulaEstimator",
                                    <<"self", d, x0, method, est_var, verbose, optim_options>>,
                                    None)>>]]

\* BaseCopula.fit: data = self.pobs(data); CopulaEstimator(self, data, ...);
\* nothing is returned, nothing is caught
fit(self, data, x0, method, est_var, verbose, optim_options, res) ==
    LET d == pobs(data, "average")
        e == CopulaEstimator(self, d, x0, method, est_var, verbose, optim_options, res)
    IN  [self |-> e.self,
         out  |-> [kind |-> e.kind, val |-> e.val,
                   calls |-> <<Call("CopulaEstimator",
                                    <<"self", d, x0, method, est_var, verbose, optim_options>>,
                                    None)>>]]

\* a log_lik that sums the densities instead of the log densities
log_lik_nolog(self, data) ==
    LET r == pdf(self, data, FALSE)
    IN  Return(SumRat(r), <<Call("pdf", <<data, FALSE>>, r)>>)

\* BaseCopula.log_lik: self.pdf(data, log=True).sum()
log_lik(self, data) ==
    LET r == pdf(self, data, TRUE)
    IN  Return(SumRat(r), <<Call("pdf", <<data, TRUE>>, r)>>)

MsgDown == "The argument must be included between 0 and 0.5."

MsgUp == "The argument must be included between 0.5 and 1."

MsgFunction == "The argument must be included between 0 and 1."

\* a concentration_down whose upper bound is exclusive
concentration_down_strict(self, x, numpy) ==
    IF ~Lt(x, Half) \/ Lt(x, Zero)
    THEN Raise("ValueError", MsgDown, <<>>)
    ELSE LET c == cdf(self, <<x, x>>)
         IN  TrueDiv(c, x, numpy, <<Call("cdf", <<x, x>>, c)>>)

\* BaseCopula.concentration_down: self.cdf([x, x]) / x
concentration_down(self, x, numpy) ==
    IF Gt(x, Half) \/ Lt(x, Zero)
    THEN Raise("ValueError", MsgDown, <<>>)
    ELSE LET c == cdf(self, <<x, x>>)
         IN  TrueDiv(c, x, numpy, <<Call("cdf", <<x, x>>, c)>>)

\* BaseCopula.concentration_up: (1. - 2 * x + self.cdf([x, x])) / (1. - x)
concentration_up(self, x, numpy) ==
    IF Lt(x, Half) \/ Gt(x, One)
    THEN Raise("ValueError", MsgUp, <<>>)
    ELSE LET c == cdf(self, <<x, x>>)
         IN  TrueDiv(Add(Sub(One, Mul(<<2, 1>>, x)), c), Sub(One, x), numpy,
                     <<Call("cdf", <<x, x>>, c)>>)

\* the outcome of a method called from another method of the copula: the
\* call is recorded in front of the calls the callee made
Via(fn, x, r) == [r EXCEPT !.calls = <<Call(fn, <<x>>, None)>> \o r.calls]

\* a concentration_function that sends x = 0.5 to the lower half
concentration_function_low(self, x, numpy) ==
    IF Lt(x, Zero) \/ Gt(x, One)
    THEN Raise("ValueError", MsgFunction, <<>>)
    ELSE IF ~Gt(x, Half)
         THEN Via("concentration_down", x, concentration_down(self, x, numpy))
         ELSE Via("concentration_up", x, concentration_up(self, x, numpy))

\* BaseCopula.concentration_function
concentration_function(self, x, numpy) ==
    IF Lt(x, Zero) \/ Gt(x, One)
    THEN Raise("ValueError", MsgFunction, <<>>)
    ELSE IF Lt(x, Half)
         THEN Via("concentration_down", x, concentration_down(self, x, numpy))
         ELSE Via("concentration_up", x, concentration_up(self, x, numpy))

\* BaseCopula.lambda_: Lambda(*self.__lambda__)
lambda_(self) ==
    LET l == __lambda__(self)
    IN  Return([lower |-> l[1], upper |-> l[2]], <<Call("__lambda__", <<>>, l)>>)

MsgRandom == "Copula must be fitted before it can generate random numbers"

\* a random without the fit-state guard
random_unguarded(self, n, seed, draw) ==
    LET r == __random__(self, n, seed, draw)
    IN  Return(r, <<Call("__random__", <<n, seed>>, r)>>)

\* BaseCopula.random
random(self, n, seed, draw) ==
    IF self.fit_stats = None
    THEN Raise("RuntimeError", MsgRandom, <<>>)
    ELSE LET r == __random__(self, n, seed, draw)
         IN  Return(r, <<Call("__random__", <<n, seed>>, r)>>)

(* ------------------- inputs ------------------------------------------- *)

\* the n x Dim matrices, 1 <= n <= rows, with entries in vals
Matrices(rows, vals) == UNION {[1..n -> [1..Dim -> vals]] : n \in 1..rows}

\* observations 0.1, 0.5 and 0.9
DataVals == {Rat(1, 10), Rat(1, 2), Rat(9, 10)}

\* the observations the lifecycle operations are called with; a repeated
\* observation is a tie in both columns
FitRows == {<<Rat(1, 10), Rat(9, 10)>>, <<Rat(9, 10), Rat(1, 10)>>}

FitData == UNION {[1..n -> FitRows] : n \in 1..MaxFitRows}

X0s == {None, Some(<<1>>)}

Methods == {"mpl", "irho"}

Verbosities == {0, 1}

OptimOptions == {None, Some("maxiter")}

Default == [x0 |-> None, method |-> "mpl", est_var |-> FALSE, verbose |-> 1, optim_options |-> None]

Options == {"x0", "method", "est_var", "verbose", "optim_options"}

\* the fit configurations that override at most MaxOverrides defaults
FitConfigs ==
    {c \in [x0 : X0s, method : Methods, est_var : BOOLEAN, verbose : Verbosities,
            optim_options : OptimOptions] :
        Cardinality({o \in Options : c[o] # Default[o]}) <= MaxOverrides}

Seeds == {None, Some(7)}

\* the concentration arguments: from a little below 0 to a little above 1
Grid == {Rat(k, 2 * HalfSteps) : k \in (0 - Outside)..(2 * HalfSteps + Outside)}

\* candidate parameter vectors handed to the params setter
Candidates == ParamSupport \cup {<<2>>}

(* ------------------- the copula instance ------------------------------ *)

Self == [params |-> params, fit_stats |-> fit_stats]

\* one call of a public operation: the instance afterwards, what the call
\* was, and what it returned or raised
Do(name, a, self, out) ==
    /\ params' = self.params
    /\ fit_stats' = self.fit_stats
    /\ op' = name
    /\ args' = a
    /\ result' = [kind |-> out.kind, val |-> out.val]
    /\ calls' = out.calls

Init ==
    /\ \E p \in ParamSupport :
          /\ params = AbstractCopula_init(p).params
          /\ fit_stats = AbstractCopula_init(p).fit_stats
    /\ op = "init"
    /\ args = <<>>
    /\ result = [kind |-> "return", val |-> None]
    /\ calls = <<>>

Fit ==
    \E data \in FitData, c \in FitConfigs, res \in OptimResults :
        LET r == fit(Self, data, c.x0, c.method, c.est_var, c.verbose, c.optim_options, res)
        IN  Do("fit", <<data, c.x0, c.method, c.est_var, c.verbose, c.optim_options>>,
               r.self, r.out)

Random ==
    \E n \in 1..MaxDraw, seed \in Seeds :
        \E draw \in Draws(seed) :
            Do("random", <<n, seed>>, Self, random(Self, n, seed, draw))

\* a log_lik that keeps its value in fit_stats
LogLik_caching ==
    \E data \in FitData :
        LET r == log_lik(Self, data)
        IN  Do("log_lik", <<data>>,
               [Self EXCEPT !.fit_stats = Some([params |-> params, log_lik |-> r.val, se |-> None])], r)

LogLik ==
    \E data \in FitData : Do("log_lik", <<data>>, Self, log_lik(Self, data))

ConcentrationDown ==
    \E x \in Grid, numpy \in BOOLEAN :
        Do("concentration_down", <<x, numpy>>, Self, concentration_down(Self, x, numpy))

ConcentrationUp ==
    \E x \in Grid, numpy \in BOOLEAN :
        Do("concentration_up", <<x, numpy>>, Self, concentration_up(Self, x, numpy))

ConcentrationFunction ==
    \E x \in Grid, numpy \in BOOLEAN :
        Do("concentration_function", <<x, numpy>>, Self, concentration_function(Self, x, numpy))

Pobs ==
    \E data \in FitData, ties \in Ties :
        Do("pobs", <<data, ties>>, Self, Return(pobs(data, ties), <<>>))

Lambda == Do("lambda_", <<>>, Self, lambda_(Self))

Cdf ==
    \E x \in Grid :
        Do("cdf", <<x>>, Self, Return(cdf(Self, <<x, x>>), <<>>))

Pdf ==
    \E data \in FitData, log \in BOOLEAN :
        Do("pdf", <<data, log>>, Self, Return(pdf(Self, data, log), <<>>))

GetParams == Do("params", <<>>, Self, Return(params, <<>>))

SetParams ==
    \E p \in Candidates :
        LET r == SetParamsOf(Self, p)
        IN  Do("params=", <<p>>, r.self, r.out)

Next ==
    \/ Fit
    \/ Random
    \/ LogLik
    \/ ConcentrationDown
    \/ ConcentrationUp
    \/ ConcentrationFunction
    \/ Pobs
    \/ Lambda
    \/ Cdf
    \/ Pdf
    \/ GetParams
    \/ SetParams

Spec == Init /\ [][Next]_vars

\* pobs is static: it is checked on every data matrix of up to MaxRows rows
\* the caller may hold, ties included, under every tie policy
InitPobs ==
    /\ \E p \in ParamSupport :
          /\ params = AbstractCopula_init(p).params
          /\ fit_stats = AbstractCopula_init(p).fit_stats
    /\ op = "data"
    /\ args \in {<<data>> : data \in Matrices(MaxRows, DataVals)}
    /\ result = [kind |-> "return", val |-> None]
    /\ calls = <<>>

PobsAll ==
    /\ op = "data"
    /\ \E ties \in Ties :
          Do("pobs", <<args[1], ties>>, Self, Return(pobs(args[1], ties), <<>>))

NextPobs == PobsAll

SpecPobs == InitPobs /\ [][NextPobs]_vars

(* ------------------- the claims --------------------------------------- *)

\* C1: random(n, seed) on an unfitted instance raises the precondition
\* error without calling __random__; on a fitted instance it calls
\* __random__ exactly once with the same n and seed and returns its result.
C1_RandomGated ==
    op = "random" =>
        IF fit_stats = None
        THEN /\ result.kind = "RuntimeError"
             /\ result.val = MsgRandom
             /\ calls = <<>>
        ELSE /\ result.kind = "return"
             /\ Len(calls) = 1
             /\ calls[1].fn = "__random__"
             /\ calls[1].args = args
             /\ result.val = calls[1].ret

C1_Witness ==
    /\ op = "random"
    /\ fit_stats # None
    /\ result.kind = "return"
    /\ args = <<2, Some(7)>>
    /\ Len(result.val) = 2

\* C2: a fit call that fails leaves params and fit_stats as they were
\* before the call, on an unfitted and on a fitted instance.
C2_FailedFitKeepsState ==
    [][(op' = "fit" /\ result'.kind # "return")
          => (params' = params /\ fit_stats' = fit_stats)]_vars

C2_Witness ==
    /\ op = "fit"
    /\ result.kind = "EstimationError"
    /\ args[2] # None
    /\ args[2][1] # params

\* C3: the instance starts unfitted, a fitted instance never becomes
\* unfitted again, and random on a fitted instance never raises.
C3_FittedForever ==
    /\ fit_stats = None
    /\ [][/\ fit_stats # None => fit_stats' # None
          /\ (fit_stats # None /\ op' = "random") => result'.kind = "return"]_vars

C3_Witness ==
    /\ op = "fit"
    /\ result.kind = "EstimationError"
    /\ fit_stats # None

\* C4: only fit changes fit_stats; random, log_lik, the concentration
\* functions, pobs and lambda_ leave it as it is.
C4_OnlyFitWritesStats ==
    [][fit_stats' # fit_stats => op' = "fit"]_vars

C4_Witness ==
    /\ op = "log_lik"
    /\ fit_stats # None
    /\ result.val # Zero

InUnit(x) == ~Lt(x, Zero) /\ ~Gt(x, One)

\* C5: concentration_function(x) is concentration_down(x) on [0, 0.5) and
\* concentration_up(x) on [0.5, 1], x = 0.5 going to concentration_up; it
\* raises the domain error outside [0, 1], and the half it dispatches to
\* never raises its own domain error.
C5_Dispatch ==
    op = "concentration_function" =>
        LET x == args[1]
            d == IF Lt(x, Half) THEN concentration_down(Self, x, args[2])
                 ELSE concentration_up(Self, x, args[2])
        IN  IF InUnit(x)
            THEN /\ result.kind # "ValueError"
                 /\ result.kind = d.kind
                 /\ result.val = d.val
                 /\ Len(calls) = 2
                 /\ calls[1].fn = (IF Lt(x, Half) THEN "concentration_down" ELSE "concentration_up")
                 /\ calls[1].args = <<x>>
            ELSE /\ result.kind = "ValueError"
                 /\ result.val = MsgFunction
                 /\ calls = <<>>

C5_Witness ==
    /\ op = "concentration_function"
    /\ args[1] = Half
    /\ result.kind = "return"
    /\ calls[1].fn = "concentration_up"

\* C6: concentration_down raises the domain error exactly when x < 0 or
\* x > 0.5, concentration_up exactly when x < 0.5 or x > 1; 0.5 is accepted
\* by both, 0.6 is rejected by concentration_down, and no cdf is evaluated
\* when the domain error is raised.
C6_DomainErrors ==
    /\ op = "concentration_down" =>
          /\ (result.kind = "ValueError") <=> (Lt(args[1], Zero) \/ Gt(args[1], Half))
          /\ result.kind = "ValueError" => (result.val = MsgDown /\ calls = <<>>)
          /\ args[1] = Half => result.kind = "return"
          /\ args[1] = Rat(6, 10) => result.kind = "ValueError"
    /\ op = "concentration_up" =>
          /\ (result.kind = "ValueError") <=> (Lt(args[1], Half) \/ Gt(args[1], One))
          /\ result.kind = "ValueError" => (result.val = MsgUp /\ calls = <<>>)
          /\ args[1] = Half => result.kind = "return"

C6_Witness ==
    /\ op = "concentration_down"
    /\ args[1] = Half
    /\ result.kind = "return"
    /\ Len(calls) = 1

RECURSIVE Total(_)
Total(xs) == IF xs = <<>> THEN Zero ELSE Add(Head(xs), Total(Tail(xs)))

\* C7: log_lik(data) calls pdf exactly once, on the data it was given and
\* with log = true, and returns the sum of the values pdf returned, whatever
\* the fit state.
C7_LogLikIsSumOfLogPdf ==
    op = "log_lik" =>
        /\ result.kind = "return"
        /\ Len(calls) = 1
        /\ calls[1].fn = "pdf"
        /\ calls[1].args = <<args[1], TRUE>>
        /\ calls[1].ret = pdf(Self, args[1], TRUE)
        /\ result.val = Total(calls[1].ret)

C7_Witness ==
    /\ op = "log_lik"
    /\ fit_stats = None
    /\ Len(args[1]) = 2
    /\ pobs(args[1], "average") # args[1]
    /\ result.val = <<4, 1>>

NoTies(data) ==
    \A j \in 1..Dim : \A i, k \in 1..Len(data) : i # k => data[i][j] # data[k][j]

\* the scenario of the specification: columns 0.1, 0.5, 0.9 and 0.9, 0.5, 0.1
Scenario ==
    <<<<Rat(1, 10), Rat(9, 10)>>, <<Rat(1, 2), Rat(1, 2)>>, <<Rat(9, 10), Rat(1, 10)>>>>

ScenarioPobs ==
    <<<<Rat(1, 4), Rat(3, 4)>>, <<Rat(1, 2), Rat(1, 2)>>, <<Rat(3, 4), Rat(1, 4)>>>>

\* C8: on a data matrix without ties inside a column, pobs returns a
\* matrix of the same shape whose columns are the ranks divided by n + 1:
\* every entry is strictly between 0 and 1 and the order inside each column
\* is the order of the data; the scenario gives 0.25, 0.5, 0.75 and
\* 0.75, 0.5, 0.25.
C8_PobsNoTies ==
    (op = "pobs" /\ NoTies(args[1])) =>
        LET data == args[1]
            n    == Len(data)
            u    == result.val
        IN  /\ result.kind = "return"
            /\ Len(u) = n
            /\ \A i \in 1..n :
                  /\ Len(u[i]) = Dim
                  /\ \A j \in 1..Dim :
                        /\ u[i][j] = Rat(1 + Cardinality({k \in 1..n : Lt(data[k][j], data[i][j])}), n + 1)
                        /\ Lt(Zero, u[i][j])
                        /\ Lt(u[i][j], One)
                        /\ \A k \in 1..n : Lt(data[i][j], data[k][j]) <=> Lt(u[i][j], u[k][j])
            /\ data = Scenario => u = ScenarioPobs

C8_Witness ==
    /\ op = "pobs"
    /\ args = <<Scenario, "average">>
    /\ result.val = ScenarioPobs

\* C9: concentration_down(x) is CDF(x, x) / x for every x in [0, 0.5],
\* x = 0 included, and concentration_up(x) is (1 - 2x + CDF(x, x)) / (1 - x)
\* for every x in [0.5, 1], x = 1 included: an accepted argument never
\* divides by zero or fails.
C9_FormulaOnWholeDomain ==
    /\ (op = "concentration_down" /\ ~Lt(args[1], Zero) /\ ~Gt(args[1], Half)) =>
          /\ result.kind = "return"
          /\ IsFinite(result.val)
          /\ Mul(result.val, args[1]) = cdf(Self, <<args[1], args[1]>>)
          /\ (params = <<0>> /\ args[1] = Rat(3, 10)) => result.val = Rat(3, 10)
    /\ (op = "concentration_up" /\ ~Lt(args[1], Half) /\ ~Gt(args[1], One)) =>
          /\ result.kind = "return"
          /\ IsFinite(result.val)
          /\ Mul(result.val, Sub(One, args[1]))
                = Add(Sub(One, Mul(<<2, 1>>, args[1])), cdf(Self, <<args[1], args[1]>>))

====
